---- MODULE Spec2Model ----
(***************************************************************************)
(* Model of the users HTTP service of main.go: the users table behind the  *)
(* go-pg handle `db`, the struct validator, and the handlers getUsers,     *)
(* getUser, createUser, updateUser and deleteUser.                         *)
(*                                                                         *)
(* The store is modelled at the level of the SQL statement each go-pg call *)
(* issues, and it is assumed reachable (no connectivity failures):         *)
(*   Select on a struct model    SELECT .. WHERE id = ?   ErrNoRows if none*)
(*   Insert                      INSERT .. RETURNING id   id = DEFAULT     *)
(*                               (bigserial) when the struct's ID is zero, *)
(*                               otherwise the struct's own ID is written  *)
(*   Update / Delete             executed without RETURNING: a statement   *)
(*                               that matches no row is not an error       *)
(*   Offset(n) / Limit(n)        the clause is emitted only when n # 0;    *)
(*                               PostgreSQL rejects a negative value       *)
(***************************************************************************)
EXTENDS Integers, Sequences, FiniteSets, TLC

\* ---------------------------------------------------------------- bounds
\* Largest value the id sequence of the table hands out.
MaxSeq == 2
\* Largest number of rows the table holds.
MaxRows == 2

\* ------------------------------------------------------ program constants
StatusOK == 200
StatusBadRequest == 400
StatusNotFound == 404
StatusInternalServerError == 500

DefaultPage == 1
DefaultLimit == 10

MinNameLen == 2
MaxNameLen == 100
MinAge == 0
MaxAge == 130

\* ------------------------------------------------------------ input data
RECURSIVE Rep(_, _)
Rep(s, n) == IF n = 0 THEN "" ELSE s \o Rep(s, n - 1)

Name100 == Rep("abcdefghij", 10)
Name101 == Name100 \o "k"

\* An email is a sequence of characters.
EmailA == <<"j", "@", "e">>
EmailB == <<"d", "o", "e", "@", "x">>
EmailNoAt == <<"n", "o">>
EmailTwoAt == <<"a", "@", "@", "b">>

\* User struct; the zero value is what a malformed body decodes to.
User(i, n, e, a) == [id |-> i, name |-> n, email |-> e, age |-> a]

ZeroUser == User(0, "", <<>>, 0)

\* Decoded request bodies without the id field.
ValidBodies ==
    { User(0, "Jo", EmailA, 0),
      User(0, Name100, EmailB, 130) }

InvalidBodies ==
    { ZeroUser,
      User(0, "J", EmailA, 30),
      User(0, Name101, EmailA, 30),
      User(0, "Jo", EmailNoAt, 30),
      User(0, "Jo", EmailTwoAt, 30),
      User(0, "Jo", EmailA, -1),
      User(0, "Jo", EmailA, 131),
      User(0, "J", EmailNoAt, 200) }

\* Values of the "id" member of a request body (0 = member absent).
BodyIds == {0, 2}

Bodies == { [b EXCEPT !.id = i] : b \in ValidBodies, i \in BodyIds } \cup InvalidBodies

\* A numeric request parameter as received: absent (the empty string), text
\* that is not a number, or the decimal text of an integer.
Absent == [kind |-> "absent", val |-> 0]
Junk == [kind |-> "junk", val |-> 0]
Num(n) == [kind |-> "int", val |-> n]

PathIds == {Junk} \cup { Num(i) : i \in 1 .. MaxSeq }
PageParams == {Absent, Junk, Num(0), Num(1), Num(2)}
LimitParams == {Absent, Junk, Num(-1), Num(0), Num(1)}
NameParams == {"", "Jo"}
AgeParams == {Absent, Junk, Num(0), Num(130)}

\* strconv.Atoi: the value and whether an error was returned.
Atoi(s) == IF s.kind = "int" THEN [val |-> s.val, err |-> FALSE]
                             ELSE [val |-> 0, err |-> TRUE]

\* ------------------------------------------------------------- validator
Count(e, c) == Cardinality({ i \in 1 .. Len(e) : e[i] = c })

\* "email" tag, reduced to its skeleton: exactly one "@", with a non-empty
\* local part before it and a non-empty domain after it.
IsEmail(e) == /\ Count(e, "@") = 1
              /\ e[1] # "@"
              /\ e[Len(e)] # "@"

\* Field/rule pairs violated by the struct tags of User.
Violations(u) ==
    (IF Len(u.name) = 0 THEN {<<"Name", "required">>} ELSE {})
    \cup (IF Len(u.name) > 0 /\ Len(u.name) < MinNameLen THEN {<<"Name", "min">>} ELSE {})
    \cup (IF Len(u.name) > MaxNameLen THEN {<<"Name", "max">>} ELSE {})
    \cup (IF Len(u.email) = 0 THEN {<<"Email", "required">>} ELSE {})
    \cup (IF Len(u.email) > 0 /\ ~IsEmail(u.email) THEN {<<"Email", "email">>} ELSE {})
    \cup (IF u.age < MinAge THEN {<<"Age", "gte">>} ELSE {})
    \cup (IF u.age > MaxAge THEN {<<"Age", "lte">>} ELSE {})

\* validate.Struct(user): TRUE when an error is returned.
validateStructNoAgeLimit(u) == Violations(u) \ {<<"Age", "lte">>} # {}

validateStructNoNameMin(u) == Violations(u) \ {<<"Name", "min">>} # {}

validateStruct(u) == Violations(u) # {}

\* ----------------------------------------------------------------- store
Ids(t) == { t[k].id : k \in 1 .. Len(t) }

Row(t, i) == CHOOSE r \in { t[k] : k \in 1 .. Len(t) } : r.id = i

\* db.Model(user).WherePK().Select()
SelectPK(t, i) ==
    IF i \in Ids(t) THEN [err |-> FALSE, user |-> Row(t, i)]
                    ELSE [err |-> TRUE, user |-> User(i, "", <<>>, 0)]

\* db.Model(&user).Insert(): a zero ID takes the next value of the sequence
\* (consumed even when the statement then fails), a non-zero ID is written
\* as given; a duplicate primary key fails the statement.
InsertDropsAge(t, s, u) ==
    LET newId == IF u.id = 0 THEN s ELSE u.id
        s2 == IF u.id = 0 THEN s + 1 ELSE s
        row == [u EXCEPT !.id = newId, !.age = 0]
    IN IF newId \in Ids(t)
         THEN [err |-> TRUE, table |-> t, seq |-> s2, user |-> u]
         ELSE [err |-> FALSE, table |-> Append(t, row), seq |-> s2, user |-> [u EXCEPT !.id = newId]]

Insert(t, s, u) ==
    LET newId == IF u.id = 0 THEN s ELSE u.id
        s2 == IF u.id = 0 THEN s + 1 ELSE s
        row == [u EXCEPT !.id = newId]
    IN IF newId \in Ids(t)
         THEN [err |-> TRUE, table |-> t, seq |-> s2, user |-> u]
         ELSE [err |-> FALSE, table |-> Append(t, row), seq |-> s2, user |-> row]

\* db.Model(&user).Where("id = ?", id).Update(): sets the non-key columns of
\* the matching row.  moved: the new row version is placed at the end of the
\* heap instead of in place (the table has no defined order).
UpdateAllRows(t, i, u, moved) ==
    [k \in 1 .. Len(t) |-> [u EXCEPT !.id = t[k].id]]

Update(t, i, u, moved) ==
    LET new == [u EXCEPT !.id = i]
        inPlace == [k \in 1 .. Len(t) |-> IF t[k].id = i THEN new ELSE t[k]]
        rest == SelectSeq(t, LAMBDA r : r.id # i)
    IN IF i \notin Ids(t) THEN t
       ELSE IF moved THEN Append(rest, new)
       ELSE inPlace

\* db.Model(user).WherePK().Delete(): err is the error returned.
DeleteFirstRow(t, i) ==
    [err |-> FALSE, table |-> IF i \in Ids(t) THEN Tail(t) ELSE t]

Delete(t, i) ==
    [err |-> FALSE, table |-> SelectSeq(t, LAMBDA r : r.id # i)]

\* The Where clauses of getUsers.
Filter(t, name, ageStr) ==
    SelectSeq(t, LAMBDA r : /\ name # "" => r.name = name
                            /\ ageStr.kind # "absent" => r.age = Atoi(ageStr).val)

Min(a, b) == IF a < b THEN a ELSE b

\* query.Offset(offset).Limit(limit).Select() over the filtered rows.
SelectPageNoOffset(rows, offset, limit) ==
    IF offset < 0 \/ limit < 0 THEN [err |-> TRUE, users |-> <<>>]
    ELSE [err |-> FALSE,
          users |-> SubSeq(rows, 1, IF limit = 0 THEN Len(rows) ELSE Min(Len(rows), limit))]

SelectPage(rows, offset, limit) ==
    IF offset < 0 \/ limit < 0 THEN [err |-> TRUE, users |-> <<>>]
    ELSE [err |-> FALSE,
          users |-> SubSeq(rows, offset + 1,
                           IF limit = 0 THEN Len(rows) ELSE Min(Len(rows), offset + limit))]

\* page and limit of getUsers after the fallbacks of lines 73-80.
PageOf(pageStr) == IF Atoi(pageStr).err THEN DefaultPage ELSE Atoi(pageStr).val

LimitOf(limitStr) == IF Atoi(limitStr).err THEN DefaultLimit ELSE Atoi(limitStr).val

\* The rows getUsers reads for a query, and whether the select failed.
ListUsers(t, q) ==
    LET page == PageOf(q.page)
        limit == LimitOf(q.limit)
    IN SelectPage(Filter(t, q.name, q.age), (page - 1) * limit, limit)

NoQuery == [page |-> Absent, limit |-> Absent, name |-> "", age |-> Absent]

\* Queries sent: every page with limit absent or 1, every limit with page
\* absent or 2, and every filter on the first page.
Queries ==
    { [NoQuery EXCEPT !.page = p, !.limit = l] : p \in PageParams, l \in {Absent, Num(1)} }
    \cup { [NoQuery EXCEPT !.page = p, !.limit = l] : p \in {Absent, Num(2)}, l \in LimitParams }
    \cup { [NoQuery EXCEPT !.name = n, !.age = a] : n \in NameParams, a \in AgeParams }

\* ----------------------------------------------------------------- state
VARIABLES
    table,      \* rows of the users table, in heap order
    seq,        \* next value of the id sequence of the table
    last,       \* the request handled last and the response written for it
    created,    \* id -> body and response of the Create that made the row,
                \* until an Update or Delete statement is issued for that id
    pending     \* per connection: a validated body whose statement has not
                \* been executed yet

vars == <<table, seq, last, created, pending>>

Conns == {1, 2}

Idle == [op |-> "idle", id |-> 0, body |-> ZeroUser]

\* Request and response of one handled request.  pre and preSeq are the
\* table and the sequence the handler found.
Resp(op, id, body, query, status, msg, user, users, pre, preSeq) ==
    [op |-> op, id |-> id, body |-> body, query |-> query, status |-> status,
     msg |-> msg, user |-> user, users |-> users, pre |-> pre, preSeq |-> preSeq]

Init ==
    /\ table = <<>>
    /\ seq = 1
    /\ last = Resp("none", 0, ZeroUser, NoQuery, 0, "", ZeroUser, <<>>, <<>>, 1)
    /\ created = <<>>
    /\ pending = [c \in Conns |-> Idle]

Forget(i) == [j \in DOMAIN created \ {i} |-> created[j]]

Remember(b, u) ==
    [j \in DOMAIN created \cup {u.id} |->
        IF j = u.id THEN [body |-> b, resp |-> u] ELSE created[j]]

\* --------------------------------------------------------------- handlers
\* GET /users
getUsers ==
    \E q \in Queries :
        LET r == ListUsers(table, q)
        IN /\ last' = IF r.err
                        THEN Resp("List", 0, ZeroUser, q, StatusInternalServerError,
                                  "select failed", ZeroUser, <<>>, table, seq)
                        ELSE Resp("List", 0, ZeroUser, q, StatusOK,
                                  "", ZeroUser, r.users, table, seq)
           /\ UNCHANGED <<table, seq, created, pending>>

\* GET /users/{id}
getUser ==
    \E p \in PathIds :
        LET id == Atoi(p).val
            r == SelectPK(table, id)
        IN /\ last' = IF r.err
                        THEN Resp("Get", id, ZeroUser, NoQuery, StatusNotFound,
                                  "User not found", ZeroUser, <<>>, table, seq)
                        ELSE Resp("Get", id, ZeroUser, NoQuery, StatusOK,
                                  "", r.user, <<>>, table, seq)
           /\ UNCHANGED <<table, seq, created, pending>>

\* POST /users
createUser ==
    \E b \in Bodies :
        IF validateStruct(b)
          THEN /\ last' = Resp("Create", 0, b, NoQuery, StatusBadRequest,
                               "validation failed", ZeroUser, <<>>, table, seq)
               /\ UNCHANGED <<table, seq, created, pending>>
          ELSE LET r == Insert(table, seq, b)
               IN /\ Len(table) < MaxRows
                  /\ b.id = 0 => seq <= MaxSeq
                  /\ table' = r.table
                  /\ seq' = r.seq
                  /\ last' = IF r.err
                               THEN Resp("Create", 0, b, NoQuery, StatusInternalServerError,
                                         "insert failed", ZeroUser, <<>>, table, seq)
                               ELSE Resp("Create", 0, b, NoQuery, StatusOK,
                                         "", r.user, <<>>, table, seq)
                  /\ created' = IF r.err THEN created ELSE Remember(b, r.user)
                  /\ UNCHANGED pending

\* PUT /users/{id}
updateUser ==
    \E p \in PathIds, b \in Bodies :
        LET id == Atoi(p).val
        IN IF validateStruct(b)
             THEN /\ last' = Resp("Update", id, b, NoQuery, StatusBadRequest,
                                  "validation failed", ZeroUser, <<>>, table, seq)
                  /\ UNCHANGED <<table, seq, created, pending>>
             ELSE /\ \E moved \in BOOLEAN : table' = Update(table, id, b, moved)
                  /\ last' = Resp("Update", id, b, NoQuery, StatusOK,
                                  "", [b EXCEPT !.id = id], <<>>, table, seq)
                  /\ created' = Forget(id)
                  /\ UNCHANGED <<seq, pending>>

\* DELETE /users/{id}
deleteUser ==
    \E p \in PathIds :
        LET id == Atoi(p).val
            r == Delete(table, id)
        IN /\ table' = r.table
           /\ last' = IF r.err
                        THEN Resp("Delete", id, ZeroUser, NoQuery, StatusNotFound,
                                  "User not found", ZeroUser, <<>>, table, seq)
                        ELSE Resp("Delete", id, ZeroUser, NoQuery, StatusOK,
                                  "User deleted", ZeroUser, <<>>, table, seq)
           /\ created' = Forget(id)
           /\ UNCHANGED <<seq, pending>>

\* Requests handled one after another: each step is one whole handler.
Next == \/ getUsers
        \/ getUser
        \/ createUser
        \/ updateUser
        \/ deleteUser

Spec == Init /\ [][Next]_vars

\* ------------------------------------------------- concurrent requests
\* net/http runs each request in its own goroutine.  createUser and
\* updateUser work on a local User between validation and their single
\* statement, so requests interleave at that point.

\* createUser up to the validation (lines 119-126).
createUserDecode(c) ==
    /\ pending[c] = Idle
    /\ \E b \in Bodies :
         pending' = [pending EXCEPT ![c] =
                       IF validateStruct(b) THEN Idle
                       ELSE [op |-> "create", id |-> 0, body |-> b]]
    /\ UNCHANGED <<table, seq, last, created>>

\* createUser from the insert on (lines 129-134).
createUserInsert(c) ==
    /\ pending[c].op = "create"
    /\ Len(table) < MaxRows
    /\ pending[c].body.id = 0 => seq <= MaxSeq
    /\ LET r == Insert(table, seq, pending[c].body)
       IN /\ table' = r.table
          /\ seq' = r.seq
    /\ pending' = [pending EXCEPT ![c] = Idle]
    /\ UNCHANGED <<last, created>>

\* updateUser up to the validation (lines 139-149).
updateUserDecode(c) ==
    /\ pending[c] = Idle
    /\ \E p \in PathIds, b \in Bodies :
         pending' = [pending EXCEPT ![c] =
                       IF validateStruct(b) THEN Idle
                       ELSE [op |-> "update", id |-> Atoi(p).val, body |-> b]]
    /\ UNCHANGED <<table, seq, last, created>>

\* updateUser from the update on (lines 151-157).
updateUserUpdate(c) ==
    /\ pending[c].op = "update"
    /\ \E moved \in BOOLEAN :
         table' = Update(table, pending[c].id, pending[c].body, moved)
    /\ pending' = [pending EXCEPT ![c] = Idle]
    /\ UNCHANGED <<seq, last, created>>

\* deleteUser: its one statement (lines 162-166).
deleteUserDelete(c) ==
    /\ pending[c] = Idle
    /\ \E p \in PathIds : table' = Delete(table, Atoi(p).val).table
    /\ UNCHANGED <<seq, last, created, pending>>

ConcNext ==
    \E c \in Conns :
        \/ createUserDecode(c)
        \/ createUserInsert(c)
        \/ updateUserDecode(c)
        \/ updateUserUpdate(c)
        \/ deleteUserDelete(c)

SpecConc == Init /\ [][ConcNext]_vars

\* ------------------------------------------------------------ properties
Rows(t) == { t[k] : k \in 1 .. Len(t) }

\* C1: a Create that responded 200, followed by a Get on the returned id
\* with no Update or Delete of that id in between, yields 200 with a User
\* equal in id, name, email and age to the Create response, and equal in
\* name, email and age to the body that was posted.
C1_CreateThenGet ==
    (last.op = "Get" /\ last.id \in DOMAIN created) =>
        LET c == created[last.id]
        IN /\ last.status = StatusOK
           /\ last.user = c.resp
           /\ last.user.id = last.id
           /\ last.user.name = c.body.name
           /\ last.user.email = c.body.email
           /\ last.user.age = c.body.age

C1_Witness ==
    /\ last.op = "Get"
    /\ last.id \in DOMAIN created
    /\ last.status = StatusOK
    /\ last.user.age = MaxAge

\* C2: for an id that is not the key of any stored row, Get responds 404 and
\* Delete responds 404, never 200, and the stored rows are unchanged.
C2_AbsentIdNotFound ==
    (last.op \in {"Get", "Delete"} /\ last.id \notin Ids(last.pre)) =>
        /\ last.status = StatusNotFound
        /\ table = last.pre

\* C3: a Create or Update whose body violates a constraint on name, email or
\* age responds 400 and leaves the table and its sequence as they were.
C3_InvalidRejected ==
    (/\ last.op \in {"Create", "Update"}
     /\ \/ Len(last.body.name) < MinNameLen
        \/ Len(last.body.name) > MaxNameLen
        \/ ~IsEmail(last.body.email)
        \/ last.body.age < MinAge
        \/ last.body.age > MaxAge) =>
        /\ last.status = StatusBadRequest
        /\ table = last.pre
        /\ seq = last.preSeq

C3_Witness ==
    /\ last.op = "Update"
    /\ last.id \in Ids(last.pre)
    /\ last.body.age > MaxAge
    /\ last.status = StatusBadRequest

\* C4: under every interleaving of concurrently handled requests, each
\* stored row has a name of 2 to 100 characters, a well-formed email and an
\* age from 0 to 130.
C4_RowsValid ==
    \A r \in Rows(table) :
        /\ Len(r.name) >= MinNameLen
        /\ Len(r.name) <= MaxNameLen
        /\ IsEmail(r.email)
        /\ r.age >= MinAge
        /\ r.age <= MaxAge

\* A row written while both connections hold a validated request.
C4_Witness ==
    /\ Len(table) = MaxRows
    /\ \A c \in Conns : pending[c].op # "idle"
    /\ pending[1].op # pending[2].op

\* C5: a Create that responds 200 returns an id generated by the store, a
\* positive integer that no row had before, whatever id the body carried;
\* the table then has one more row, and ids of rows are pairwise distinct.
C5_CreateIdGenerated ==
    /\ Cardinality(Ids(table)) = Len(table)
    /\ (last.op = "Create" /\ last.status = StatusOK) =>
          /\ last.user.id > 0
          /\ last.user.id = last.preSeq
          /\ last.user.id \notin Ids(last.pre)
          /\ Len(table) = Len(last.pre) + 1

\* C6: Delete on a present id responds 200 "User deleted", removes that row
\* and no other; from then on a Get on an absent id responds 404, and an
\* absent id becomes present again only through a Create that returns it.
C6_DeleteThenNotFound ==
    /\ (last.op = "Delete" /\ last.id \in Ids(last.pre)) =>
          /\ last.status = StatusOK
          /\ last.msg = "User deleted"
          /\ last.id \notin Ids(table)
          /\ Rows(table) = { r \in Rows(last.pre) : r.id # last.id }
          /\ Len(table) = Len(last.pre) - 1
    /\ (last.op = "Get" /\ last.id \notin Ids(table)) =>
          last.status = StatusNotFound
    /\ \A i \in Ids(table) \ Ids(last.pre) :
          /\ last.op = "Create"
          /\ last.status = StatusOK
          /\ last.user.id = i

C6_Witness ==
    /\ last.op = "Delete"
    /\ last.id \in Ids(last.pre)
    /\ Len(last.pre) = 2
    /\ last.pre[1].id = last.id
    /\ last.status = StatusOK

C8_ListDefaults ==
    LET q == last.query
        badPage == q.page.kind # "int" \/ q.page.val <= 0
        badLimit == q.limit.kind # "int" \/ q.limit.val <= 0
        fixed == [q EXCEPT !.page = IF badPage THEN Num(DefaultPage) ELSE q.page,
                           !.limit = IF badLimit THEN Num(DefaultLimit) ELSE q.limit]
    IN (last.op = "List" /\ (badPage \/ badLimit)) =>
          /\ last.status = StatusOK
          /\ last.users = ListUsers(table, fixed).users
          /\ badLimit => Len(last.users) <= DefaultLimit

\* C9: List selects from exactly the rows equal to every supplied filter: a
\* non-empty name restricts to that name, a parsable age to that age, and an
\* absent or unparsable age does not restrict the rows.
C9_Filters ==
    LET q == last.query
        match(r) == /\ q.name # "" => r.name = q.name
                    /\ q.age.kind = "int" => r.age = q.age.val
        m == SelectSeq(table, match)
    IN (last.op = "List" /\ last.status = StatusOK) =>
          last.users = SelectPage(m, (PageOf(q.page) - 1) * LimitOf(q.limit),
                                  LimitOf(q.limit)).users

\* C10: Update with path id i and a valid body responds 200 with the body
\* under id i; the row with id i takes the body's name, email and age and
\* keeps id i, every other row is unchanged, and when no row has id i the
\* table is unchanged.
C10_UpdateFrame ==
    (last.op = "Update" /\ Violations(last.body) = {}) =>
        LET new == [last.body EXCEPT !.id = last.id]
        IN /\ last.status = StatusOK
           /\ last.user = new
           /\ Len(table) = Len(last.pre)
           /\ last.id \in Ids(last.pre) =>
                 Rows(table) = { r \in Rows(last.pre) : r.id # last.id } \cup {new}
           /\ last.id \notin Ids(last.pre) => table = last.pre

C10_Witness ==
    /\ last.op = "Update"
    /\ last.status = StatusOK
    /\ Len(last.pre) = 2
    /\ last.id \in Ids(last.pre)
    /\ last.body.id \notin {0, last.id}
    /\ Row(table, last.id) # Row(last.pre, last.id)
====
